---------------------------- MODULE Spec2Model ----------------------------
(***************************************************************************)
(* State-machine model of fp/ctrainlib/models.py: the two cross-validated  *)
(* ensembles (CVClassifier, NestedClusterCVClassifier) and the two         *)
(* prediction wrappers (Regressor, Classifier).                            *)
(*                                                                         *)
(* Samples of a training set are their positions 1..n (numpy's 0..n-1).    *)
(* A probability is an integer numerator over Scale; the ensemble's mean   *)
(* keeps the exact divisor n_folds next to the summed numerators, so a row *)
(* sums to 1 exactly when its numerators sum to Scale * divisor.           *)
(***************************************************************************)
EXTENDS Integers, Sequences, FiniteSets, TLC

\* ------------------------------------------------------------ bounds
\* samples of a training set; the fold count ranges up to it
MaxSamples == 3
\* rows of a feature table
MaxTableRows == 2
\* fit calls on one ensemble that return normally
MaxFits == 2
\* owned models up to which fit is called again
MaxModels == 4
\* the denominator of a base model's probabilities
Scale == 2

\* ------------------------------------------------------------ values
None == "None"
Labels == {"neg", "pos"}
\* values an external pipeline may assign to classes_
ClassOrders == {<<"neg", "pos">>, <<"pos">>}
\* prediction inputs: one feature value per row
Inputs == {<<0>>, <<1>>, <<0, 1>>}
\* cluster identifiers
ClusterIds == {0, 1, 2, 3}
CV == "CVClassifier"
NCV == "NestedClusterCVClassifier"

VARIABLES
    kind,            \* which ensemble class was constructed
    clf,             \* the base classifier capability handed to __init__
    params,          \* self.params
    shuffle,         \* self.shuffle
    n_folds,         \* self.n_folds
    outer_clusters,  \* self.outer_clusters (<<>> for CVClassifier)
    models,          \* self.models
    classes_,        \* self.classes_
    fits,            \* number of fit calls that returned normally
    lastFit,         \* what the most recent fit call did
    lastCall,        \* the most recent predict / predict_proba call and its result
    wrapper,         \* the slots of a Regressor / Classifier
    argTable,        \* the table the caller passed to the wrapper's predict
    callerTable,     \* the caller's table after that call
    modelArg,        \* the array the wrapped model was invoked with
    wresult          \* what the wrapper's predict returned or raised

ensVars == <<kind, clf, params, shuffle, n_folds, outer_clusters, models, classes_,
             fits, lastFit, lastCall>>

wrapVars == <<wrapper, argTable, callerTable, modelArg, wresult>>

vars == <<ensVars, wrapVars>>

config == <<kind, clf, params, shuffle, n_folds, outer_clusters>>

\* ------------------------------------------------------------ helpers
RECURSIVE SumSeq(_)
SumSeq(s) == IF s = <<>> THEN 0 ELSE Head(s) + SumSeq(Tail(s))

RECURSIVE SortedSeq(_)
\* np.unique: the distinct values in ascending order
SortedSeq(S) ==
    IF S = {} THEN <<>>
    ELSE LET m == CHOOSE x \in S : \A y \in S : x <= y
         IN <<m>> \o SortedSeq(S \ {m})

Range(s) == {s[i] : i \in 1..Len(s)}

RECURSIVE Flatten(_)
Flatten(ss) == IF ss = <<>> THEN <<>> ELSE Head(ss) \o Flatten(Tail(ss))

\* np.where(np.logical_not(s == v))[0]: the positions of s, ascending, whose
\* value is not v
WhereNot(s, v) == SortedSeq({i \in 1..Len(s) : s[i] # v})

\* a[ix] for an index array ix
Take(a, ix) == [j \in 1..Len(ix) |-> a[ix[j]]]

\* ------------------------------------------------------------ base model
\* clf(**params) followed by .fit(x[train], y[train]): the fitted instance is
\* known by the samples it was trained on.
NewModel(train) == [train |-> train]

\* model.predict_proba on one sample with feature value v: a normalized row
\* over the two classes, fixed by the fitted instance and the sample.
BaseProba(m, v) ==
    LET p == (Cardinality(m.train) + v) % (Scale + 1)
    IN <<p, Scale - p>>

\* model.predict_proba(x_data): one row per sample
BasePredictProba(m, x) == [r \in 1..Len(x) |-> BaseProba(m, x[r])]

\* ------------------------------------------------------------ _mean_proba
RECURSIVE SumEntry(_, _, _, _)
\* entry (r, c) of np.sum(predictions, axis=0), with v the feature value of row r:
\* the sum over the models, in list order, of their probability of class c
SumEntry(ms, v, c, i) ==
    IF i > Len(ms) THEN 0
    ELSE BaseProba(ms[i], v)[c] + SumEntry(ms, v, c, i + 1)

\* np.sum(predictions, axis=0) over the list of per-model matrices
SumMatrices(ms, x) ==
    [r \in 1..Len(x) |-> <<SumEntry(ms, x[r], 1, 1), SumEntry(ms, x[r], 2, 1)>>]

\* np.divide(np.sum(predictions, axis=0), self.n_folds); np.sum of the empty
\* list is the scalar 0.0
MeanProba(x) ==
    IF models = <<>> THEN [shape |-> "scalar", num |-> <<>>, den |-> n_folds]
    ELSE [shape |-> "matrix", num |-> SumMatrices(models, x), den |-> n_folds]

\* an argmax that keeps the last position holding the maximum
ArgMaxLast(row) ==
    CHOOSE i \in 1..Len(row) :
        /\ \A j \in 1..Len(row) : row[j] <= row[i]
        /\ \A j \in (i + 1)..Len(row) : row[j] < row[i]

\* values.argmax(): the first position holding the maximum
ArgMax(row) ==
    CHOOSE i \in 1..Len(row) :
        /\ \A j \in 1..Len(row) : row[j] <= row[i]
        /\ \A j \in 1..(i - 1) : row[j] < row[i]

\* np.array([self.classes_[x] for x in list(np.argmax(probas, axis=1))])
PredictResult(x) ==
    LET probas == MeanProba(x)
    IN IF probas.shape = "scalar" THEN [status |-> "AxisError", value |-> <<>>]
       ELSE IF classes_ = None THEN [status |-> "TypeError", value |-> <<>>]
       ELSE IF \E r \in 1..Len(x) : ArgMax(probas.num[r]) > Len(classes_)
            THEN [status |-> "IndexError", value |-> <<>>]
       ELSE [status |-> "ok",
             value |-> [r \in 1..Len(x) |-> classes_[ArgMax(probas.num[r])]]]

PredictProbaResult(x) == [status |-> "ok", value |-> MeanProba(x)]

\* ------------------------------------------------------------ inputs
LabelVectors == UNION {[1..n -> Labels] : n \in 1..MaxSamples}
ClusterVectors == UNION {[1..n -> ClusterIds] : n \in 1..MaxSamples}

NoFit == [status |-> "none", n |-> 0, folds |-> <<>>, pairs |-> <<>>, base |-> 0]
NoCall == [op |-> "none", x |-> <<>>, result |-> [status |-> "none", value |-> <<>>]]
NoTable == [cols |-> <<>>, index |-> <<>>, data |-> <<>>]
NoResult == [status |-> "none", table |-> NoTable]
NotInvoked == [invoked |-> FALSE, cols |-> <<>>, data |-> <<>>]
\* no wrapper constructed
WrapIdle ==
    /\ wrapper = [kind |-> "none"]
    /\ argTable = NoTable
    /\ callerTable = NoTable
    /\ modelArg = NotInvoked
    /\ wresult = NoResult

\* ------------------------------------------------------------ construction
\* CVClassifier.__init__ / NestedClusterCVClassifier.__init__
Init ==
    /\ clf = "clf"
    /\ params = [random_state |-> 0]
    /\ shuffle = TRUE
    /\ models = <<>>
    /\ classes_ = None
    /\ fits = 0
    /\ lastFit = NoFit
    /\ lastCall = NoCall
    /\ WrapIdle
    /\ \/ /\ kind = CV
          /\ n_folds \in 1..MaxSamples
          /\ outer_clusters = <<>>
       \/ /\ kind = NCV
          /\ outer_clusters \in ClusterVectors
          /\ n_folds = Cardinality(Range(outer_clusters))

\* ------------------------------------------------------------ CVClassifier.fit
Count(y, S) == Cardinality({s \in DOMAIN y : y[s] \in S})

\* StratifiedKFold(n_splits, ...).split raises ValueError
SplitFails(k, y) ==
    \/ k < 2
    \/ Len(y) < k
    \/ \A c \in Range(y) : Count(y, {c}) < k

\* the assignments of samples to test folds 0..k-1 that split may yield: every
\* class is spread over the folds as evenly as integer arithmetic allows
TestFolds(k, y) ==
    {tf \in [1..Len(y) -> 0..(k - 1)] :
        \A c \in Range(y) : \A i, j \in 0..(k - 1) :
            Cardinality({s \in 1..Len(y) : y[s] = c /\ tf[s] = i})
              - Cardinality({s \in 1..Len(y) : y[s] = c /\ tf[s] = j}) <= 1}

\* a fold's model trained on the held-out portion instead
TrainIndexIsTestIndex(tf, i) == {s \in DOMAIN tf : tf[s] = i}

\* train_index of fold i
TrainIndex(tf, i) == {s \in DOMAIN tf : tf[s] # i}

\* the loop of lines 221-224: one model per fold, appended in fold order
CVFitModels(k, tf) == [i \in 1..k |-> NewModel(TrainIndex(tf, i - 1))]

\* a fit that starts from an empty list
Replaced(ms, new) == new

\* self.models.append(clf_tmp), once per model built
Appended(ms, new) == ms \o new

\* a fit that derives classes_ from the labels it saw
ClassesDerived(y) == IF Range(y) = Labels THEN <<"neg", "pos">> ELSE <<y[1]>>

\* fit assigns nothing to self.classes_
ClassesAfterFit(y) == classes_

CVFit ==
    /\ kind = CV
    /\ fits < MaxFits
    /\ Len(models) + n_folds <= MaxModels
    /\ \E y \in LabelVectors :
        IF SplitFails(n_folds, y)
        THEN /\ lastFit' = [status |-> "ValueError", n |-> 0, folds |-> <<>>,
                            pairs |-> <<>>, base |-> Len(models)]
             /\ UNCHANGED <<models, fits, classes_>>
        ELSE \E tf \in TestFolds(n_folds, y) :
             /\ models' = Appended(models, CVFitModels(n_folds, tf))
             /\ fits' = fits + 1
             /\ classes_' = ClassesAfterFit(y)
             /\ lastFit' = [status |-> "ok", n |-> Len(y), folds |-> tf,
                            pairs |-> <<>>, base |-> Len(models)]
    /\ lastCall' = NoCall
    /\ UNCHANGED <<config, wrapVars>>

\* ------------------------------------------------------------ NestedClusterCVClassifier.fit
\* lines 328-332 for one value of the loop variable fold
InnerIx(fold) == WhereNot(outer_clusters, fold)
InnerClusters(fold) == Take(outer_clusters, InnerIx(fold))

\* lines 334-338 for one fold: the (fold, inner_fold, training samples) of each
\* model built, in the order of np.unique(inner_clusters)
InnerLoop(fold) ==
    LET inner_ix == InnerIx(fold)
        inner_clusters == InnerClusters(fold)
        inner_folds == SortedSeq(Range(inner_clusters))
    IN [j \in 1..Len(inner_folds) |->
          LET train_ix == WhereNot(inner_clusters, inner_folds[j])
          IN [fold |-> fold, inner_fold |-> inner_folds[j],
              train |-> Range(Take(inner_ix, train_ix))]]

\* for fold in range(self.n_folds)
OuterLoop == Flatten([f \in 1..n_folds |-> InnerLoop(f - 1)])

\* the steps completed before clf_tmp.fit raises: a base classifier that
\* rejects an empty training set stops the loop at the first one
RECURSIVE Completed(_, _)
Completed(steps, acceptsEmpty) ==
    IF steps = <<>> THEN <<>>
    ELSE IF Head(steps).train = {} /\ ~acceptsEmpty THEN <<>>
    ELSE <<Head(steps)>> \o Completed(Tail(steps), acceptsEmpty)

NestedFit ==
    /\ kind = NCV
    /\ fits < MaxFits
    /\ Len(models) + n_folds <= MaxModels
    /\ \E acceptsEmpty \in BOOLEAN :
       LET steps == OuterLoop
           done == Completed(steps, acceptsEmpty)
           ok == Len(done) = Len(steps)
       IN /\ models' = Appended(models, [i \in 1..Len(done) |-> NewModel(done[i].train)])
          /\ fits' = IF ok THEN fits + 1 ELSE fits
          /\ lastFit' = [status |-> IF ok THEN "ok" ELSE "ValueError",
                         n |-> Len(outer_clusters), folds |-> <<>>,
                         pairs |-> [i \in 1..Len(done) |->
                                      <<done[i].fold, done[i].inner_fold>>],
                         base |-> Len(models)]
    /\ lastCall' = NoCall
    /\ UNCHANGED <<config, classes_, wrapVars>>

\* ------------------------------------------------------------ classes_ assignment
\* the surrounding training pipeline sets model.classes_ from outside
SetClasses ==
    /\ \E c \in ClassOrders : classes_' = c
    /\ classes_' # classes_
    /\ lastCall' = NoCall
    /\ UNCHANGED <<config, models, fits, lastFit, wrapVars>>

\* ------------------------------------------------------------ predict / predict_proba
CVPredict ==
    /\ kind = CV
    /\ \E x \in Inputs :
         lastCall' = [op |-> "predict", x |-> x, result |-> PredictResult(x)]
    /\ UNCHANGED <<config, models, classes_, fits, lastFit, wrapVars>>

\* a predict_proba that stores the model count as the divisor
CVPredictProbaCaching ==
    /\ kind = CV
    /\ \E x \in Inputs :
         lastCall' = [op |-> "predict_proba", x |-> x, result |-> PredictProbaResult(x)]
    /\ n_folds' = IF models = <<>> THEN n_folds ELSE Len(models)
    /\ UNCHANGED <<kind, clf, params, shuffle, outer_clusters, models, classes_,
                   fits, lastFit, wrapVars>>

CVPredictProba ==
    /\ kind = CV
    /\ \E x \in Inputs :
         lastCall' = [op |-> "predict_proba", x |-> x, result |-> PredictProbaResult(x)]
    /\ UNCHANGED <<config, models, classes_, fits, lastFit, wrapVars>>

NestedPredict ==
    /\ kind = NCV
    /\ \E x \in Inputs :
         lastCall' = [op |-> "predict", x |-> x, result |-> PredictResult(x)]
    /\ UNCHANGED <<config, models, classes_, fits, lastFit, wrapVars>>

NestedPredictProba ==
    /\ kind = NCV
    /\ \E x \in Inputs :
         lastCall' = [op |-> "predict_proba", x |-> x, result |-> PredictProbaResult(x)]
    /\ UNCHANGED <<config, models, classes_, fits, lastFit, wrapVars>>

\* ------------------------------------------------------------ feature tables
\* column layouts of the caller's tables: descriptor d1, fingerprint bits fp1, fp2
ColLayouts == {<<"d1", "fp1">>, <<"fp1", "d1", "fp2">>}
IndexLabels == {10, 20}
\* a table's values: row r, column c holds (r + c + seed) % 3
Tables ==
    {[cols |-> c, index |-> ix,
      data |-> [r \in 1..Len(ix) |-> [k \in 1..Len(c) |-> (r + k + seed) % 3]]] :
        c \in ColLayouts,
        ix \in UNION {[1..n -> IndexLabels] : n \in 1..MaxTableRows},
        seed \in {0, 1}}

\* the wrapped model: its class ordering and the width of its probability rows
WrappedModels ==
    {[classes_ |-> None, width |-> 2],
     [classes_ |-> <<"a", "b">>, width |-> 2],
     [classes_ |-> <<"a", "b", "c">>, width |-> 3],
     [classes_ |-> <<"a", "b">>, width |-> 3]}

\* Regressor.__init__ / Classifier.__init__
WrapInit ==
    /\ wrapper \in
         [kind : {"Regressor", "Classifier"},
          name : {"m"},
          model : WrappedModels,
          scaler : {None, "StandardScaler"},
          redundant_cols : {None, <<>>, <<"fp1">>, <<"fp2">>},
          descriptors : {<<"d1">>}]
    /\ wrapper.kind = "Regressor" => wrapper.model = [classes_ |-> None, width |-> 2]
    /\ argTable = NoTable
    /\ callerTable = NoTable
    /\ modelArg = NotInvoked
    /\ wresult = NoResult
    /\ kind = "none"
    /\ clf = "clf"
    /\ params = [random_state |-> 0]
    /\ shuffle = TRUE
    /\ n_folds = 0
    /\ outer_clusters = <<>>
    /\ models = <<>>
    /\ classes_ = None
    /\ fits = 0
    /\ lastFit = NoFit
    /\ lastCall = NoCall

\* x_data bound to the caller's own table
XDataAlias(t) == [ref |-> "caller", table |-> t]

\* x_data = x_data.copy()
XDataCopy(t) == [ref |-> "copy", table |-> t]

\* positions of the columns of t, ascending, whose name is not in names
KeptColumns(t, names) == SortedSeq({k \in 1..Len(t.cols) : t.cols[k] \notin Range(names)})

\* x_data.drop(columns=self.redundant_cols, inplace=True), under
\* `if self.redundant_cols:` (None and the empty list are falsy)
Dropped(t) ==
    IF wrapper.redundant_cols = None \/ wrapper.redundant_cols = <<>>
    THEN [status |-> "ok", table |-> t]
    ELSE IF \E c \in Range(wrapper.redundant_cols) : c \notin Range(t.cols)
    THEN [status |-> "KeyError", table |-> t]
    ELSE LET keep == KeptColumns(t, wrapper.redundant_cols)
         IN [status |-> "ok",
             table |-> [cols |-> Take(t.cols, keep), index |-> t.index,
                        data |-> [r \in 1..Len(t.data) |-> Take(t.data[r], keep)]]]

\* self.scaler.transform on one value: the fitted mean is 1, the deviation 1
Transform(v) == v - 1

\* x_data.loc[:, self.descriptors] = self.scaler.transform(...), under
\* `if self.scaler:`
Scaled(t) ==
    IF wrapper.scaler = None THEN [status |-> "ok", table |-> t]
    ELSE IF \E d \in Range(wrapper.descriptors) : d \notin Range(t.cols)
    THEN [status |-> "KeyError", table |-> t]
    ELSE [status |-> "ok",
          table |-> [cols |-> t.cols, index |-> t.index,
                     data |-> [r \in 1..Len(t.data) |->
                                 [k \in 1..Len(t.cols) |->
                                    IF t.cols[k] \in Range(wrapper.descriptors)
                                    THEN Transform(t.data[r][k])
                                    ELSE t.data[r][k]]]]]

\* lines 64-71 / 130-137 on the object x_data is bound to
Preprocessed(t) ==
    LET d == Dropped(t)
    IN IF d.status = "ok" THEN Scaled(d.table) ELSE d

\* the caller's table after the call: the working object when x_data is bound to it
CallerAfter(work, done) == IF work.ref = "caller" THEN done.table ELSE work.table

\* np.array(x_data) as handed to the model, with the columns it was built from
Invoked(t) == [invoked |-> TRUE, cols |-> t.cols, data |-> t.data]

\* self.model.predict(array): one value per row
ModelPredict(arr) == [r \in 1..Len(arr) |-> SumSeq(arr[r])]

\* probability rows a wrapped model may return, ties included
ProbaPatterns ==
    << <<1, 1, 0>>, <<2, 0, 0>>, <<0, 1, 1>>, <<0, 0, 2>>, <<1, 0, 1>>, <<0, 2, 1>> >>

\* self.model.predict_proba(array): one row of the model's width per sample
ModelPredictProba(arr, width) ==
    [r \in 1..Len(arr) |->
        SubSeq(ProbaPatterns[(SumSeq(arr[r]) % Len(ProbaPatterns)) + 1], 1, width)]

\* a frame built without index=index: pandas numbers the rows 0..n-1
DefaultIndex(t) == [r \in 1..Len(t.index) |-> r - 1]

\* index = x_data.index, passed to both frames of the result
ResultIndex(t) == t.index

Column(f, i) == [f |-> f, i |-> i]
\* prediction_name, probability_name
PredictionName == Column("prediction", -1)
ProbabilityName == Column("probability", -1)
\* [f'{self.name}_probability_{i}' for i in range(len(self.model.classes_))]
ProbabilityColumns(classes) == [i \in 1..Len(classes) |-> Column("probability", i - 1)]

\* Regressor.predict
RegressorPredict ==
    /\ wrapper.kind = "Regressor"
    /\ \E t \in Tables :
        LET work == XDataCopy(t)
            pre == Preprocessed(work.table)
        IN /\ argTable' = t
           /\ callerTable' = CallerAfter(work, pre)
           /\ IF pre.status # "ok"
              THEN /\ modelArg' = NotInvoked
                   /\ wresult' = [status |-> pre.status, table |-> NoTable]
              ELSE LET y == ModelPredict(pre.table.data)
                   IN /\ modelArg' = Invoked(pre.table)
                      /\ wresult' =
                           [status |-> "ok",
                            table |-> [cols |-> <<PredictionName>>,
                                       index |-> ResultIndex(t),
                                       data |-> [r \in 1..Len(y) |-> <<y[r]>>]]]
    /\ UNCHANGED <<wrapper, ensVars>>

\* lines 141-153 of Classifier.predict on the probabilities y
ClassifierTable(t, y) ==
    LET classes == wrapper.model.classes_
    IN IF classes = None THEN [status |-> "TypeError", table |-> NoTable]
       ELSE IF \E r \in 1..Len(y) : ArgMax(y[r]) > Len(classes)
       THEN [status |-> "IndexError", table |-> NoTable]
       ELSE IF wrapper.model.width # Len(classes)
       THEN [status |-> "ValueError", table |-> NoTable]
       ELSE [status |-> "ok",
             table |-> [cols |-> <<PredictionName, ProbabilityName>>
                                   \o ProbabilityColumns(classes),
                        index |-> ResultIndex(t),
                        data |-> [r \in 1..Len(y) |->
                                    <<classes[ArgMax(y[r])], y[r][ArgMax(y[r])]>> \o y[r]]]]

\* Classifier.predict
ClassifierPredict ==
    /\ wrapper.kind = "Classifier"
    /\ \E t \in Tables :
        LET work == XDataCopy(t)
            pre == Preprocessed(work.table)
        IN /\ argTable' = t
           /\ callerTable' = CallerAfter(work, pre)
           /\ IF pre.status # "ok"
              THEN /\ modelArg' = NotInvoked
                   /\ wresult' = [status |-> pre.status, table |-> NoTable]
              ELSE /\ modelArg' = Invoked(pre.table)
                   /\ wresult' = ClassifierTable(t,
                                    ModelPredictProba(pre.table.data, wrapper.model.width))
    /\ UNCHANGED <<wrapper, ensVars>>

WrapNext ==
    \/ RegressorPredict
    \/ ClassifierPredict

SpecWrapper == WrapInit /\ [][WrapNext]_vars

Next ==
    \/ CVFit
    \/ NestedFit
    \/ SetClasses
    \/ CVPredict
    \/ CVPredictProba
    \/ NestedPredict
    \/ NestedPredictProba

Spec == Init /\ [][Next]_vars

\* ------------------------------------------------------------ properties
RECURSIVE SumOver(_, _)
\* the sum of the values of f over the finite set S
SumOver(f, S) ==
    IF S = {} THEN 0
    ELSE LET a == CHOOSE a \in S : TRUE IN f[a] + SumOver(f, S \ {a})

ClusterSet == Range(outer_clusters)
\* the distinct identifiers among the samples whose cluster is not c
Remainder(c) == {outer_clusters[s] : s \in {t \in 1..Len(outer_clusters) : outer_clusters[t] # c}}
\* the most recent fit started from an empty list, returned normally and gave
\* every model at least one training sample
FreshFit ==
    /\ lastFit.status = "ok"
    /\ lastFit.base = 0
    /\ \A i \in 1..Len(models) : models[i].train # {}
RowSum(row) == SumSeq(row)
\* two values of classes_ are the same: both None, or the same ordering
SameClasses(a, b) == IF a = None THEN b = None ELSE (b # None /\ a = b)

\* C1: a CVClassifier.fit that returns normally appends exactly n_folds models,
\* the i-th trained on exactly the samples outside test fold i, in fold order;
\* on a freshly constructed ensemble the list then holds exactly n_folds models.
C1_CVFitOneModelPerFold ==
    (kind = CV /\ lastFit.status = "ok") =>
        /\ n_folds >= 2
        /\ Len(models) = lastFit.base + n_folds
        /\ \A i \in 1..n_folds :
              models[lastFit.base + i].train =
                  {s \in 1..lastFit.n : lastFit.folds[s] # i - 1}
        /\ (lastFit.base = 0 => Len(models) = n_folds)

C1_Witness ==
    /\ kind = CV
    /\ lastFit.status = "ok"
    /\ lastFit.base = 0
    /\ n_folds = 3
    /\ Len(models) = 3
    /\ models[2].train = {1, 3}

\* C2: after one NestedClusterCVClassifier.fit on a fresh ensemble the list
\* holds, summed over the distinct cluster identifiers c, the number of distinct
\* identifiers among the samples outside c: n * (n - 1) for n distinct clusters,
\* whatever the identifiers are. (Stated for the fits in which every model had
\* at least one training sample.)
C2_NestedModelCount ==
    (kind = NCV /\ FreshFit) =>
        /\ Len(models) = SumOver([c \in ClusterSet |-> Cardinality(Remainder(c))],
                                 ClusterSet)
        /\ Len(models) = n_folds * (n_folds - 1)

\* C3: after one fit of either ensemble, every row of predict_proba sums to 1
\* when the sub-models' rows do. (The nested ensemble is taken with the
\* identifiers 0..n-1, where fit builds the models it documents.)
C3_RowsSumToOne ==
    (/\ FreshFit
     /\ kind = NCV => ClusterSet = 0..(n_folds - 1)
     /\ lastCall.op = "predict_proba"
     /\ lastCall.result.value.shape = "matrix") =>
        \A r \in 1..Len(lastCall.x) :
            RowSum(lastCall.result.value.num[r]) = Scale * lastCall.result.value.den

\* C4: predict and predict_proba change nothing of the ensemble, and a call
\* repeated with the same input right after returns what it returned before.
C4_PredictLeavesStateAlone ==
    [][lastCall'.op # "none" =>
          /\ UNCHANGED <<kind, clf, params, shuffle, n_folds, outer_clusters, models>>
          /\ SameClasses(classes_, classes_')
          /\ (lastCall.op = lastCall'.op /\ lastCall.x = lastCall'.x)
                => lastCall'.result = lastCall.result]_vars

C4_Witness ==
    /\ Len(models) > 0
    /\ classes_ # None
    /\ lastCall.op = "predict"
    /\ lastCall.result.status = "ok"
    /\ Len(lastCall.x) = 2

\* C7: every model NestedClusterCVClassifier.fit builds belongs to a pair
\* (c, f) of distinct identifiers that both occur in the cluster assignment
\* vector and is trained on exactly the samples whose cluster is neither c nor
\* f, so on no sample of c, and every such pair has its model. (Stated for the
\* fits in which every model had at least one training sample.)
C7_NestedPairs ==
    (kind = NCV /\ FreshFit) =>
        /\ \A i \in 1..Len(lastFit.pairs) :
              LET c == lastFit.pairs[i][1]
                  f == lastFit.pairs[i][2]
              IN /\ c \in ClusterSet
                 /\ f \in ClusterSet
                 /\ f # c
                 /\ models[i].train =
                      {s \in 1..Len(outer_clusters) : outer_clusters[s] \notin {c, f}}
                 /\ \A s \in models[i].train : outer_clusters[s] # c
        /\ \A c \in ClusterSet : \A f \in ClusterSet \ {c} :
              \E i \in 1..Len(lastFit.pairs) : lastFit.pairs[i] = <<c, f>>

\* after m fits the list holds m * n_folds models and the rows of predict_proba
\* sum to m
C8_Counts ==
    kind = CV =>
        /\ Len(models) = fits * n_folds
        /\ (lastCall.op = "predict_proba" /\ lastCall.result.value.shape = "matrix") =>
              \A r \in 1..Len(lastCall.x) :
                  RowSum(lastCall.result.value.num[r])
                      = fits * Scale * lastCall.result.value.den

C10_State ==
    /\ (lastCall.op = "predict" /\ classes_ = None) => lastCall.result.status # "ok"
    /\ lastCall.op = "predict_proba" => lastCall.result.status = "ok"
    /\ (lastCall.op = "predict" /\ lastCall.result.status = "ok") =>
          /\ classes_ # None
          /\ \A r \in 1..Len(lastCall.x) : lastCall.result.value[r] \in Range(classes_)

\* C10: fit leaves classes_ and the configuration alone, so classes_ is None
\* until it is assigned from outside; while it is None predict fails and
\* predict_proba succeeds (inputs of at least one row); the labels predict
\* returns are entries of classes_.
C10_ClassesSetOnlyFromOutside ==
    /\ []C10_State
    /\ [][(models' # models \/ lastFit' # lastFit) =>
            /\ SameClasses(classes_, classes_')
            /\ UNCHANGED <<kind, clf, params, shuffle, n_folds, outer_clusters>>]_vars

C10_Witness ==
    /\ fits = 1
    /\ Len(models) > 0
    /\ classes_ = None
    /\ lastCall.op = "predict"
    /\ lastCall.result.status = "TypeError"

\* the caller's table has every column the wrapper names, and the wrapped model
\* has a class ordering as long as its probability rows are wide
ValidCall ==
    /\ wrapper.redundant_cols # None =>
          \A c \in Range(wrapper.redundant_cols) : c \in Range(argTable.cols)
    /\ wrapper.scaler # None =>
          \A d \in Range(wrapper.descriptors) :
              /\ d \in Range(argTable.cols)
              /\ wrapper.redundant_cols # None => d \notin Range(wrapper.redundant_cols)
    /\ wrapper.model.classes_ # None
    /\ Len(wrapper.model.classes_) = wrapper.model.width

\* C5: on a valid table Classifier.predict returns a table; a returned table
\* has the columns prediction, probability and probability_i for each class
\* index i, 2 + n_classes in all, one row per input row, and the input's index.
C5_ClassifierTableShape ==
    (wrapper.kind = "Classifier" /\ wresult.status # "none") =>
        /\ ValidCall => wresult.status = "ok"
        /\ wresult.status = "ok" =>
             LET n == Len(wrapper.model.classes_)
                 out == wresult.table
             IN /\ Len(out.cols) = 2 + n
                /\ out.cols[1] = Column("prediction", -1)
                /\ out.cols[2] = Column("probability", -1)
                /\ \A i \in 0..(n - 1) : out.cols[3 + i] = Column("probability", i)
                /\ Len(out.data) = Len(argTable.data)
                /\ \A r \in 1..Len(out.data) : Len(out.data[r]) = 2 + n
                /\ out.index = argTable.index

C5_Witness ==
    /\ wrapper.kind = "Classifier"
    /\ wresult.status = "ok"
    /\ Len(wrapper.model.classes_) = 3
    /\ Len(wresult.table.cols) = 5
    /\ wresult.table.index = <<20, 10>>

\* C6: neither wrapper's predict changes the caller's table; no redundant
\* column is among the columns handed to the model; a redundant column missing
\* from the input makes the call fail with the model not invoked and no table.
C6_InputUntouched ==
    wresult.status # "none" =>
        /\ callerTable = argTable
        /\ (modelArg.invoked /\ wrapper.redundant_cols # None) =>
              \A c \in Range(wrapper.redundant_cols) : c \notin Range(modelArg.cols)
        /\ (/\ wrapper.redundant_cols # None
            /\ \E c \in Range(wrapper.redundant_cols) : c \notin Range(argTable.cols)) =>
              /\ ~modelArg.invoked
              /\ wresult.status = "KeyError"
              /\ wresult.table = NoTable

C6_Witness ==
    /\ wrapper.kind = "Regressor"
    /\ wrapper.redundant_cols # None
    /\ wrapper.redundant_cols = <<"fp1">>
    /\ wrapper.scaler # None
    /\ wresult.status = "ok"
    /\ argTable.cols = <<"fp1", "d1", "fp2">>
    /\ modelArg.invoked
    /\ modelArg.cols = <<"d1", "fp2">>

\* the per-class probabilities of a row of the Classifier's table
Probs(row) == SubSeq(row, 3, Len(row))
RowMax(q) == CHOOSE v \in Range(q) : \A u \in Range(q) : u <= v
Lowest(q) == CHOOSE i \in 1..Len(q) : q[i] = RowMax(q) /\ \A j \in 1..(i - 1) : q[j] # RowMax(q)

\* C9: in every row of the Classifier's table the prediction is the class at
\* the lowest index holding the row maximum, and the probability is that
\* maximum, the value of the probability_i column at that index.
C9_ArgmaxLowestIndex ==
    (wrapper.kind = "Classifier" /\ wresult.status = "ok") =>
        \A r \in 1..Len(wresult.table.data) :
            LET row == wresult.table.data[r]
                q == Probs(row)
            IN /\ row[1] = wrapper.model.classes_[Lowest(q)]
               /\ row[2] = RowMax(q)
               /\ row[2] = row[2 + Lowest(q)]

C9_Witness ==
    /\ wrapper.kind = "Classifier"
    /\ wresult.status = "ok"
    /\ \E r \in 1..Len(wresult.table.data) :
          /\ Probs(wresult.table.data[r]) = <<0, 1, 1>>
          /\ wresult.table.data[r][1] = "b"

=============================================================================
